---- MODULE Spec2Model ----
(***************************************************************************)
(* A model of the goldmark LaTeX renderer of src/latex.go: the renderer's  *)
(* configuration, the raw source buffer, the output stream as the sequence *)
(* of writes made to it, and one action per node handler of the dispatch   *)
(* table, called by goldmark's depth-first walker.                         *)
(*                                                                         *)
(* Bytes are numbers 0..255.  B("...") gives the bytes of an ASCII string  *)
(* literal of the source.                                                  *)
(***************************************************************************)
EXTENDS Integers, Sequences, FiniteSets, TLC

VARIABLES
    r,        \* the Renderer: its configuration fields
    source,   \* the raw source buffer handed to every handler
    w,        \* the output stream: the writes made so far, in order
    pc,       \* "walk": the walker chooses its next call; "call": a handler runs;
              \* "done": the walk has stopped; "panic": a handler aborted
    call,     \* the handler call being made: [node, entering, parent, children]
    ret,      \* the last handler call that returned, with its walk status
    stack,    \* the walker's recursion: the nodes entered and not yet left
    count,    \* the number of nodes entered so far
    queries   \* the code points r.DeclareUnicode has been called with, in order

vars == <<r, source, w, pc, call, ret, stack, count, queries>>

-----------------------------------------------------------------------------
(* Bytes and ASCII literals *)

\* The printable ASCII characters 32..95 and 97..126, in code order.
PrintableLo == " !\"#$%&'()*+,-./0123456789:;<=>?@ABCDEFGHIJKLMNOPQRSTUVWXYZ[\\]^_"

PrintableHi == "abcdefghijklmnopqrstuvwxyz{|}~"

\* The code of each character a literal may hold.
OrdTable ==
    [c \in {"\n", "\t"} \cup {SubSeq(PrintableLo, i, i) : i \in 1..Len(PrintableLo)}
             \cup {SubSeq(PrintableHi, i, i) : i \in 1..Len(PrintableHi)} |->
        IF c = "\n" THEN 10
        ELSE IF c = "\t" THEN 9
        ELSE IF \E i \in 1..Len(PrintableLo) : SubSeq(PrintableLo, i, i) = c
        THEN 31 + (CHOOSE i \in 1..Len(PrintableLo) : SubSeq(PrintableLo, i, i) = c)
        ELSE 96 + (CHOOSE i \in 1..Len(PrintableHi) : SubSeq(PrintableHi, i, i) = c)]

Ord(c) == OrdTable[c]

B(str) == [i \in 1..Len(str) |-> Ord(SubSeq(str, i, i))]

min(a, b) == IF a < b THEN a ELSE b

max(a, b) == IF a > b THEN a ELSE b

bool2int(b) == IF b THEN 1 ELSE 0

\* s[from:to] of Go: the bytes at 0-based positions from .. to-1.
Slice(s, from, to) == SubSeq(s, from + 1, to)

RECURSIVE Flatten(_)
Flatten(ss) == IF ss = <<>> THEN <<>> ELSE Head(ss) \o Flatten(Tail(ss))

\* bytes.HasPrefix
HasPrefix(s, p) == Len(s) >= Len(p) /\ SubSeq(s, 1, Len(p)) = p

\* bytes.Contains: a raw substring search
Contains(s, sub) ==
    \E i \in 0..(Len(s) - Len(sub)) : Slice(s, i, i + Len(sub)) = sub

-----------------------------------------------------------------------------
(* The output stream.  A write is the bytes of one Write, WriteString or   *)
(* WriteByte call (a formatted string is the writes of its parts), with    *)
(* where the bytes come from: "lit" a literal of the program, "data" bytes *)
(* of the input written as they are, "esc" an escapeTable substitution.    *)

Lit(b) == [k |-> "lit", b |-> b]

Data(b) == [k |-> "data", b |-> b]

Esc(b) == [k |-> "esc", b |-> b]

\* The byte stream itself.
RECURSIVE Stream(_)
Stream(ws) == IF ws = <<>> THEN <<>> ELSE Head(ws).b \o Stream(Tail(ws))

-----------------------------------------------------------------------------
(* escapeTable and escapeLaTeX *)

\* [256][]byte; the empty sequence stands for a nil entry.
escapeTable ==
    [c \in 0..255 |->
        CASE c = 92  -> B("\\textbackslash~")
          [] c = 126 -> B("\\textasciitilde~")
          [] c = 94  -> B("\\textasciicircum~")
          [] c = 38  -> B("\\&")
          [] c = 37  -> B("\\%")
          [] c = 36  -> B("\\$")
          [] c = 35  -> B("\\#")
          [] c = 95  -> B("\\_")
          [] c = 123 -> B("\\{")
          [] c = 125 -> B("\\}")
          [] OTHER   -> <<>>]

\* The mutant of escapeLoop: the copy-from cursor is not moved past the reserved
\* byte.
RECURSIVE escapeLoopKeepsByte(_, _, _)
escapeLoopKeepsByte(s, start, end) ==
    IF end < Len(s)
    THEN LET escSeq == escapeTable[s[end + 1]] IN
         IF escSeq # <<>>
         THEN <<Data(Slice(s, start, end)), Esc(escSeq)>>
              \o escapeLoopKeepsByte(s, end, end + 1)
         ELSE escapeLoopKeepsByte(s, start, end + 1)
    ELSE IF start < Len(s) /\ end <= Len(s)
         THEN <<Data(Slice(s, start, end))>>
         ELSE <<>>

\* The loop of escapeLaTeX from cursor positions start, end: the writes it makes.
RECURSIVE escapeLoop(_, _, _)
escapeLoop(s, start, end) ==
    IF end < Len(s)
    THEN LET escSeq == escapeTable[s[end + 1]] IN
         IF escSeq # <<>>
         THEN <<Data(Slice(s, start, end)), Esc(escSeq)>> \o escapeLoop(s, end + 1, end + 1)
         ELSE escapeLoop(s, start, end + 1)
    ELSE IF start < Len(s) /\ end <= Len(s)
         THEN <<Data(Slice(s, start, end))>>
         ELSE <<>>

escapeLaTeX(s) == escapeLoop(s, 0, 0)

escLink(text) == escapeLaTeX(text)

-----------------------------------------------------------------------------
(* Formatting and decoding helpers of the Go library, as the handlers use  *)
(* them.                                                                   *)

\* %d of a non-negative int
RECURSIVE Decimal(_)
Decimal(n) == IF n < 10 THEN <<48 + n>> ELSE Decimal(n \div 10) \o <<48 + (n % 10)>>

\* %v of a []byte: "[92 115 101]"
RECURSIVE SpacedDecimals(_)
SpacedDecimals(bs) ==
    IF bs = <<>> THEN <<>>
    ELSE IF Len(bs) = 1 THEN Decimal(bs[1])
    ELSE Decimal(bs[1]) \o B(" ") \o SpacedDecimals(Tail(bs))

FmtV(bs) == B("[") \o SpacedDecimals(bs) \o B("]")

HexDigits == B("0123456789abcdef")

\* strconv.FormatUint(n, 16)
RECURSIVE FormatHex(_)
FormatHex(n) ==
    IF n < 16 THEN <<HexDigits[n + 1]>>
    ELSE FormatHex(n \div 16) \o <<HexDigits[(n % 16) + 1]>>

RuneError == 65533

IsCont(b) == b >= 128 /\ b <= 191

\* utf8.DecodeRune(p): <<rune, size>>.  An invalid or short encoding decodes to
\* <<RuneError, 1>>, the empty input to <<RuneError, 0>>.
DecodeRune(p) ==
    IF p = <<>> THEN <<RuneError, 0>>
    ELSE LET p0 == p[1]
             lo == IF p0 = 224 THEN 160 ELSE IF p0 = 240 THEN 144 ELSE 128
             hi == IF p0 = 237 THEN 159 ELSE IF p0 = 244 THEN 143 ELSE 191
             size == IF p0 < 128 THEN 1
                     ELSE IF p0 >= 194 /\ p0 <= 223 THEN 2
                     ELSE IF p0 >= 224 /\ p0 <= 239 THEN 3
                     ELSE IF p0 >= 240 /\ p0 <= 244 THEN 4
                     ELSE 0
         IN  IF size = 1 THEN <<p0, 1>>
             ELSE IF size = 0 \/ Len(p) < size THEN <<RuneError, 1>>
             ELSE IF p[2] < lo \/ p[2] > hi THEN <<RuneError, 1>>
             ELSE IF size = 2 THEN <<(p0 % 32) * 64 + (p[2] % 64), 2>>
             ELSE IF ~IsCont(p[3]) THEN <<RuneError, 1>>
             ELSE IF size = 3
                  THEN <<(p0 % 16) * 4096 + (p[2] % 64) * 64 + (p[3] % 64), 3>>
             ELSE IF ~IsCont(p[4]) THEN <<RuneError, 1>>
             ELSE <<(p0 % 8) * 262144 + (p[2] % 64) * 4096 + (p[3] % 64) * 64
                        + (p[4] % 64), 4>>

\* unicode.ToLower on the ASCII and Latin-1 letters; every other code point of the
\* inputs used here has no lower-case form.
ToLower(c) ==
    IF c >= 65 /\ c <= 90 THEN c + 32
    ELSE IF c >= 192 /\ c <= 222 /\ c # 215 THEN c + 32
    ELSE c

-----------------------------------------------------------------------------
(* The package's literals (the var block) *)

endCmdPrefix == B("\\end")

mailToPrefix == B(":mailto")

hardBreak == B("\\\\\n\n")

codeSpanStart == B("\\texttt{")

blockQuoteStart == B("\n\\begin{framed}\n\\begin{quote}\n")

\* The mutant of blockQuoteEnd: the two environments closed in the order they
\* were opened in.
blockQuoteEndFramedFirst == B("\\end{framed}\n\\end{quote}\n")

blockQuoteEnd == B("\\end{quote}\n\\end{framed}\n")

hruleCommand == B("\n\\hrulefill\n")

itemCommand == B("\\item~ ")

\* [6][2][]byte, indexed from 0
headingTable ==
    [l \in 0..5 |->
        CASE l = 0 -> [b \in 0..1 |-> IF b = 0 THEN B("\\section{") ELSE B("\\section*{")]
          [] l = 1 -> [b \in 0..1 |-> IF b = 0 THEN B("\\subsection{") ELSE B("\\subsection*{")]
          [] l = 2 -> [b \in 0..1 |-> IF b = 0 THEN B("\\subsubsection{") ELSE B("\\subsubsection*{")]
          [] l = 3 -> [b \in 0..1 |-> IF b = 0 THEN B("\\paragraph{") ELSE B("\\paragraph*{")]
          [] l = 4 -> [b \in 0..1 |-> IF b = 0 THEN B("\\subparagraph{") ELSE B("\\subparagraph*{")]
          [] l = 5 -> [b \in 0..1 |-> B("\\textbf{")]]

\* The embedded defaultPreamble.tex, which is no part of the sources at hand: a
\* stand-in for its bytes.
defaultPreamble == B("\\documentclass{article}\n")

beginDocument == B("\n\\begin{document}\n")

endDocument == B("\n\\end{document}\n")

makeTitleCommand == B("\\maketitle\n")

unicodeDecl == B("\\DeclareUnicodeCharacter{")

zeropad == B("00")

\* comment(w, format, args...): one WriteString of the formatted line
comment(msg) == Lit(B("% goldmark-latex: ") \o msg \o B("\n"))

Fmt(b) == [k |-> "fmt", b |-> b]

NL == Lit(<<10>>)

-----------------------------------------------------------------------------
(* The walker's calls.  goldmark's ast.Walk calls the handler of a node    *)
(* entering, then walks the children unless the handler returned           *)
(* WalkSkipChildren, then calls the handler leaving; WalkStop ends the     *)
(* walk.  The tree is drawn node by node while it is walked.               *)

WalkStop == "Stop"

WalkSkipChildren == "SkipChildren"

WalkContinue == "Continue"

DocumentNode == [kind |-> "Document", hasNext |-> FALSE]

NoNode == [kind |-> "None", hasNext |-> FALSE]

NoCall == [node |-> NoNode, entering |-> FALSE, parent |-> "None", kids |-> 0]

NoRet == [node |-> NoNode, entering |-> FALSE, status |-> "None", from |-> 0]

\* A node entered and not yet left: the status its entering call returned, the
\* number of its children walked so far, and whether the last of them has a next
\* sibling.
Frame(n, status) == [node |-> n, status |-> status, kids |-> 0, more |-> FALSE]

Top == stack[Len(stack)]

Calling(kind) == pc = "call" /\ call.node.kind = kind

\* segment.Value(source)
Value(seg) == Slice(source, seg[1], seg[2])

\* A handler returns status with a nil error, having written ws and called the
\* unicode mapper with qs.
ReturnQ(ws, status, qs) ==
    /\ w' = w \o ws
    /\ queries' = queries \o qs
    /\ ret' = [node |-> call.node, entering |-> call.entering, status |-> status,
               from |-> Len(w)]
    /\ stack' = IF call.entering
                THEN Append(stack, Frame(call.node, status))
                ELSE SubSeq(stack, 1, Len(stack) - 1)
    /\ pc' = IF status = WalkStop \/ stack' = <<>> THEN "done" ELSE "walk"
    /\ call' = NoCall
    /\ UNCHANGED <<r, source, count>>

Return(ws, status) == ReturnQ(ws, status, <<>>)

\* A handler aborts with a run-time panic after writing ws: nothing recovers it,
\* and the render pass ends there.
PanicQ(ws, qs) ==
    /\ w' = w \o ws
    /\ queries' = queries \o qs
    /\ pc' = "panic"
    /\ UNCHANGED <<r, source, call, ret, stack, count>>

Panic(ws) == PanicQ(ws, <<>>)

-----------------------------------------------------------------------------
(* renderDocument *)

\* The scan of the whole source for code points to declare, from byte i on.
RECURSIVE declareLoop(_, _, _, _, _, _)
declareLoop(src, mapper, i, declared, ws, qs) ==
    IF i >= Len(src) THEN [ws |-> ws, qs |-> qs, panic |-> FALSE]
    ELSE LET d == DecodeRune(Slice(src, i, Len(src)))
             char == d[1]
             lchar == d[2]
         IN  IF lchar = 1 THEN declareLoop(src, mapper, i + lchar, declared, ws, qs)
             ELSE IF char \in declared
                  THEN declareLoop(src, mapper, i + lchar, declared, ws, qs)
             ELSE LET replace == mapper.raw
                      ok == char \in mapper.replaced
                      num == FormatHex(char)
                      high == 2 - (Len(num) - 2)
                  IN  IF ~ok
                      THEN declareLoop(src, mapper, i + lchar, declared \cup {char},
                                       ws, Append(qs, char))
                      ELSE IF high < 0 \/ high > Len(zeropad)
                           \* zeropad[:high]: slice bounds out of range
                           THEN [ws |-> ws \o <<Lit(unicodeDecl)>>,
                                 qs |-> Append(qs, char), panic |-> TRUE]
                      ELSE declareLoop(src, mapper, i + lchar, declared \cup {char},
                                       ws \o <<Lit(unicodeDecl),
                                               Lit(Slice(zeropad, 0, high)),
                                               Fmt(num), Lit(B("}{")),
                                               Data(replace), Lit(B("}\n"))>>,
                                       Append(qs, char))

\* The mutant of documentBodyStart: the title command before the begin-body marker.
documentBodyStartTitleFirst(makeTitle) ==
    (IF makeTitle THEN <<Lit(makeTitleCommand)>> ELSE <<>>) \o <<Lit(beginDocument)>>

\* The last writes of the entering call: the begin-body marker, and the title
\* command if r.makeTitle.
documentBodyStart(makeTitle) ==
    <<Lit(beginDocument)>> \o (IF makeTitle THEN <<Lit(makeTitleCommand)>> ELSE <<>>)

renderDocument ==
    /\ Calling("Document")
    /\ IF ~call.entering
       THEN Return(<<comment(B("end of document")), Lit(endDocument)>>, WalkStop)
       ELSE LET pre == IF r.Preamble = <<>>
                       THEN <<comment(B("default preamble start")),
                              Lit(defaultPreamble),
                              comment(B("default preamble end"))>>
                       ELSE <<comment(B("custom preamble start")),
                              Data(r.Preamble[1]),
                              comment(B("custom preamble end"))>>
                scan == IF r.DeclareUnicode # <<>>
                        THEN declareLoop(source, r.DeclareUnicode[1], 0, {}, <<NL>>, <<>>)
                        ELSE [ws |-> <<>>, qs |-> <<>>, panic |-> FALSE]
                head == <<comment(B("start of document"))>> \o pre \o scan.ws
            IN  IF scan.panic
                THEN PanicQ(head, scan.qs)
                ELSE ReturnQ(head \o documentBodyStart(r.makeTitle), WalkContinue,
                             scan.qs)

-----------------------------------------------------------------------------
(* renderHeading *)

headingLevel(offset, level) == max(0, min(6, offset + level - 1))

renderHeading ==
    /\ Calling("Heading")
    /\ IF call.entering
       THEN LET hl == headingLevel(r.HeadingLevelOffset, call.node.Level) IN
            IF hl \notin DOMAIN headingTable
            \* headingTable[hl]: index out of range
            THEN Panic(<<>>)
            ELSE LET start == headingTable[hl][bool2int(r.NoHeadingNumbering)] IN
                 Return(<<comment(B("heading start - level ") \o Decimal(hl)
                                    \o B(", start: ") \o FmtV(start)),
                          Lit(start)>>
                        \o (IF hl >= 5 THEN <<NL>> ELSE <<>>),
                        WalkContinue)
       ELSE Return(<<Lit(B("}\n")), comment(B("heading end"))>>, WalkContinue)

-----------------------------------------------------------------------------
(* Block handlers *)

renderBlockquote ==
    /\ Calling("Blockquote")
    /\ IF call.entering
       THEN Return(<<Lit(blockQuoteStart)>>, WalkContinue)
       ELSE Return(<<Lit(blockQuoteEnd)>>, WalkContinue)

skippedLine ==
    B("% goldmark-latex: Skipped following line due to possibly unsafe content:\n%")

\* The mutant of writeRawLine: the token is looked for at the start of the line
\* only.
writeRawLinePrefixOnly(unsafe, text) ==
    IF unsafe \/ ~HasPrefix(text, endCmdPrefix)
    THEN <<Data(text)>>
    ELSE <<Lit(skippedLine), Data(text)>>

\* The writes of writeRawLines for one line of text.
writeRawLine(unsafe, text) ==
    IF unsafe \/ ~Contains(text, endCmdPrefix)
    THEN <<Data(text)>>
    ELSE <<Lit(skippedLine), Data(text)>>

\* writeRawLines over the texts of n.Lines(), in order.
RECURSIVE writeRawLines(_, _)
writeRawLines(unsafe, texts) ==
    IF texts = <<>> THEN <<>>
    ELSE writeRawLine(unsafe, Head(texts)) \o writeRawLines(unsafe, Tail(texts))

\* line.Value(source) of each line of the node
LineTexts(n) == [i \in 1..Len(n.Lines) |-> Value(n.Lines[i])]

renderCodeBlock ==
    /\ Calling("CodeBlock")
    /\ IF call.entering
       THEN Return(<<comment(B("code block start")), Lit(B("\\begin{minted}{go}\n")), NL>>
                   \o writeRawLines(r.Unsafe, LineTexts(call.node)),
                   WalkContinue)
       ELSE Return(<<Lit(B("\\end{minted}\n")), comment(B("code block end"))>>,
                   WalkContinue)

\* The keys of the supportedLang map.
supportedLang ==
    { B(s) : s \in
        {"abap", "acm", "acmscript", "acsl", "ada", "algol", "assembler", "awk",
         "basic", "clean", "idl", "c", "caml", "cil", "cobol", "comsol", "csh", "bash",
         "sh", "delphi", "eiffel", "elan", "erlang", "euphoria", "fortran", "gap", "go",
         "gcl", "gnuplot", "hansl", "haskell", "html", "inform", "java", "jvmis",
         "scala", "ksh", "lingo", "lisp", "elisp", "llvm", "logo", "lua", "make",
         "matlab", "mathematica", "mercury", "metapost", "miranda", "mizar", "ml",
         "mupad", "nastran", "ocl", "octave", "oz", "pascal", "perl", "php", "plasm",
         "postscript", "pov", "prolog", "promela", "pstricks", "python", "rexx",
         "oorexx", "reduce", "rsl", "ruby", "scilab", "shelxl", "simula", "sparql",
         "sql", "swift", "tcl", "s", "r", "sas", "tex", "vbscript", "verilog", "vhdl",
         "vrml", "xslt", "ant", "xml"} }

\* n.Language(source) is the node's Language here; the empty sequence is nil.
renderFencedCodeBlock ==
    /\ Calling("FencedCodeBlock")
    /\ IF call.entering
       THEN LET language == Slice(call.node.Language, 0, min(10, Len(call.node.Language)))
                supported == language \in supportedLang
            IN  Return(<<comment(B("code fenced block start")), Lit(B("\\begin{minted}"))>>
                       \o (IF language # <<>> /\ supported
                           THEN <<Lit(B("{")), Data(language), Lit(B("}"))>>
                           ELSE <<>>)
                       \o <<NL>>
                       \o writeRawLines(r.Unsafe, LineTexts(call.node)),
                       WalkContinue)
       ELSE Return(<<Lit(B("\\end{minted}\n")), comment(B("code fenced block end"))>>,
                   WalkContinue)

renderHTMLBlock ==
    /\ Calling("HTMLBlock")
    /\ Return(<<Lit(B("\n% goldmark-latex: HTML block rendering unsupported, skipped\n"))>>,
              WalkSkipChildren)

listTag(n) == IF n.IsOrdered THEN B("enumerate") ELSE B("itemize")

renderList ==
    /\ Calling("List")
    /\ IF call.entering
       THEN Return(<<Lit(B("\n\\begin{")), Lit(listTag(call.node)), Lit(B("}\n"))>>,
                   WalkContinue)
       ELSE Return(<<Lit(B("\\end{")), Lit(listTag(call.node)), Lit(B("}\n"))>>,
                   WalkContinue)

renderListItem ==
    /\ Calling("ListItem")
    /\ IF call.entering
       THEN Return(<<Lit(itemCommand)>>, WalkContinue)
       ELSE Return(<<NL>>, WalkContinue)

renderParagraph ==
    /\ Calling("Paragraph")
    /\ IF call.entering
       THEN Return(<<comment(B("paragraph start (type: *ast.Paragraph)"))>>
                   \o (IF call.parent # "List" /\ call.parent # "ListItem"
                       THEN <<NL>> ELSE <<>>),
                   WalkContinue)
       ELSE Return(<<NL, comment(B("paragraph end"))>>, WalkContinue)

\* n.NextSibling() != nil is the node's hasNext; n.FirstChild() != nil is that the
\* walker has walked a child of it.
renderTextBlock ==
    /\ Calling("TextBlock")
    /\ IF ~call.entering /\ call.node.hasNext /\ call.kids > 0
       THEN Return(<<NL>>, WalkContinue)
       ELSE Return(<<>>, WalkContinue)

renderThematicBreak ==
    /\ Calling("ThematicBreak")
    /\ IF call.entering
       THEN Return(<<Lit(hruleCommand), NL>>, WalkContinue)
       ELSE Return(<<>>, WalkContinue)

-----------------------------------------------------------------------------
(* Inline handlers *)

\* The loop of haslowerprefix from byte i on, with n == min(len(a), len(b)).
RECURSIVE lowerPrefixLoop(_, _, _, _)
lowerPrefixLoop(a, b, n, i) ==
    IF i < n
    THEN LET da == DecodeRune(Slice(a, i, Len(a)))
             db == DecodeRune(Slice(b, i, Len(b)))
         IN  IF da[2] # db[2] \/ ToLower(da[1]) # ToLower(db[1])
             THEN FALSE
             ELSE lowerPrefixLoop(a, b, n, i + da[2])
    ELSE TRUE

haslowerprefix(a, b) == lowerPrefixLoop(a, b, min(Len(a), Len(b)), 0)

\* n.URL(source) and n.Label(source) of an autolink without a protocol are both
\* the value of its segment.
renderAutoLink ==
    /\ Calling("AutoLink")
    /\ IF ~call.entering
       THEN Return(<<>>, WalkContinue)
       ELSE LET url == Value(call.node.Segment)
                label == Value(call.node.Segment)
            IN  Return(<<Lit(B("\\href{"))>>
                       \o (IF call.node.AutoLinkType = "Email"
                              /\ haslowerprefix(url, mailToPrefix)
                           THEN <<Lit(B("mailto:"))>> ELSE <<>>)
                       \o escLink(url)
                       \o <<Lit(B("}{"))>>
                       \o escapeLaTeX(label)
                       \o <<Lit(B("}"))>>,
                       WalkContinue)

\* The writes of renderCodeSpan for the values of the span's Text children.
RECURSIVE codeSpanChildren(_)
codeSpanChildren(values) ==
    IF values = <<>> THEN <<>>
    ELSE LET value == Head(values) IN
         (IF Len(value) >= 1 /\ value[Len(value)] = 10
          THEN escapeLaTeX(Slice(value, 0, Len(value) - 1)) \o <<Lit(B(" "))>>
          ELSE escapeLaTeX(value))
         \o codeSpanChildren(Tail(values))

renderCodeSpan ==
    /\ Calling("CodeSpan")
    /\ IF ~call.entering
       THEN Return(<<Lit(B("}"))>>, WalkContinue)
       ELSE Return(<<Lit(codeSpanStart)>>
                   \o codeSpanChildren([i \in 1..Len(call.node.Children) |->
                                           Value(call.node.Children[i])]),
                   WalkSkipChildren)

emphasisTag(level) ==
    IF level = 2 THEN B("\\textbf{")
    ELSE IF level = 3 THEN B("\\emph{")
    ELSE B("\\textit{")

renderEmphasis ==
    /\ Calling("Emphasis")
    /\ IF call.entering
       THEN Return(<<Lit(emphasisTag(call.node.Level))>>, WalkContinue)
       ELSE Return(<<Lit(B("}"))>>, WalkContinue)

\* html.IsDangerousURL of goldmark, the predicate the link handler consults: the
\* script-running schemes, and data: URLs other than the common image types.
IsDangerousURL(url) ==
    LET hasPrefix(p) == Len(url) >= Len(p)
                        /\ [i \in 1..Len(p) |-> ToLower(url[i])] = p
    IN  IF hasPrefix(B("data:image/")) /\ Len(url) >= 11
        THEN LET v == Slice(url, 11, Len(url))
                 vHas(p) == Len(v) >= Len(p)
                            /\ [i \in 1..Len(p) |-> ToLower(v[i])] = p
             IN  ~(vHas(B("png;")) \/ vHas(B("gif;")) \/ vHas(B("jpeg;"))
                   \/ vHas(B("webp;")) \/ vHas(B("svg+xml;")))
        ELSE hasPrefix(B("javascript:")) \/ hasPrefix(B("vbscript:"))
             \/ hasPrefix(B("file:")) \/ hasPrefix(B("data:"))

\* The mutant of linkDestination: the destination is written whatever the
\* predicate says.
linkDestinationUnchecked(unsafe, destination) == escapeLaTeX(destination)

\* The writes of the destination of a link.
linkDestination(unsafe, destination) ==
    IF unsafe \/ ~IsDangerousURL(destination) THEN escapeLaTeX(destination) ELSE <<>>

renderLink ==
    /\ Calling("Link")
    /\ IF call.entering
       THEN Return(<<Lit(B("\\href{"))>>
                   \o linkDestination(r.Unsafe, call.node.Destination)
                   \o <<Lit(B("}{"))>>,
                   WalkContinue)
       ELSE Return(<<Lit(B("}"))>>, WalkContinue)

renderRawHTML ==
    /\ Calling("RawHTML")
    /\ Return(<<Lit(B("\n% goldmark-latex: raw HTML rendering unsupported\n"))>>,
              WalkSkipChildren)

renderText ==
    /\ Calling("Text")
    /\ IF ~call.entering
       THEN Return(<<>>, WalkContinue)
       ELSE LET segment == Value(call.node.Segment) IN
            IF call.node.IsRaw
            THEN Return(<<Data(segment)>>, WalkContinue)
            ELSE Return(escapeLaTeX(segment)
                        \o (IF call.node.HardLineBreak THEN <<Lit(hardBreak)>>
                            ELSE IF call.node.SoftLineBreak THEN <<NL>>
                            ELSE <<>>),
                        WalkContinue)

renderString ==
    /\ Calling("String")
    /\ IF ~call.entering
       THEN Return(<<>>, WalkContinue)
       ELSE IF call.node.IsCode \/ call.node.IsRaw
            THEN Return(<<Data(call.node.Value)>>, WalkContinue)
            ELSE Return(escapeLaTeX(call.node.Value), WalkContinue)

-----------------------------------------------------------------------------
(* renderImage *)

\* strings.Split(s, sep) for a one-byte separator: the pieces between the
\* separators, at least one piece.
RECURSIVE SplitFrom(_, _, _)
SplitFrom(s, sep, cur) ==
    IF s = <<>> THEN <<cur>>
    ELSE IF Head(s) = sep THEN <<cur>> \o SplitFrom(Tail(s), sep, <<>>)
    ELSE SplitFrom(Tail(s), sep, Append(cur, Head(s)))

Split(s, sep) == SplitFrom(s, sep, <<>>)

\* strings.ReplaceAll(s, old, new): the non-overlapping occurrences, left to right
RECURSIVE ReplaceAll(_, _, _)
ReplaceAll(s, old, new) ==
    IF Len(s) < Len(old) THEN s
    ELSE IF SubSeq(s, 1, Len(old)) = old
         THEN new \o ReplaceAll(SubSeq(s, Len(old) + 1, Len(s)), old, new)
    ELSE <<Head(s)>> \o ReplaceAll(Tail(s), old, new)

NoAttributes == [width |-> <<>>, label |-> <<>>, caption |-> <<>>]

\* The loop over the '&'-separated tokens of the query: the attributes map and
\* the diagnostics written so far.
RECURSIVE imageTokens(_, _, _, _)
imageTokens(path, tokens, attributes, ws) ==
    IF tokens = <<>> THEN [attributes |-> attributes, ws |-> ws]
    ELSE LET token == Head(tokens)
             t == Split(token, 61)
         IN  IF Len(t) # 2
             THEN imageTokens(path, Tail(tokens), attributes,
                      ws \o <<Lit(B("\n% goldmark-latex: image ")), Data(path),
                              Lit(B(" has invalid attribute ")), Data(token), NL>>)
             ELSE IF t[1] = B("width")
                  THEN imageTokens(path, Tail(tokens),
                                   [attributes EXCEPT !.width = t[2]], ws)
             ELSE IF t[1] = B("label")
                  THEN imageTokens(path, Tail(tokens),
                                   [attributes EXCEPT !.label = t[2]], ws)
             ELSE IF t[1] = B("caption")
                  THEN imageTokens(path, Tail(tokens),
                                   [attributes EXCEPT
                                       !.caption = ReplaceAll(t[2], B("%20"), B(" "))],
                                   ws)
             ELSE imageTokens(path, Tail(tokens), attributes,
                      ws \o <<Lit(B("\n% goldmark-latex: image ")), Data(path),
                              Lit(B(" has unsupported attribute ")), Data(t[1]), NL>>)

\* The path, the attributes and the diagnostics renderImage gets from a
\* destination.
imageParse(destination) ==
    LET tokens == Split(destination, 63)
        path == tokens[1]
        got == IF Len(tokens) > 1
               THEN imageTokens(path, Split(tokens[2], 38), NoAttributes, <<>>)
               ELSE [attributes |-> NoAttributes, ws |-> <<>>]
    IN  [path |-> path, attributes |-> got.attributes, ws |-> got.ws]

figure(width, path, caption, label) ==
    <<Lit(B("\\begin{figure}[h]\n\t\\centering\n\t\\includegraphics[width=")),
      Data(width), Lit(B("\\textwidth]{")), Data(path),
      Lit(B("}\n\t\\caption{")), Data(caption),
      Lit(B("}\n\t\\label {")), Data(label),
      Lit(B("}\n\\end{figure}\n"))>>

renderImage ==
    /\ Calling("Image")
    /\ IF ~call.entering
       THEN Return(<<>>, WalkContinue)
       ELSE LET p == imageParse(call.node.Destination) IN
            Return(<<Lit(B("\n% goldmark-latex: destination: ")),
                     Data(call.node.Destination),
                     Lit(B(", title: ")), Data(call.node.Title), Lit(B(" \n"))>>
                   \o p.ws
                   \o figure(p.attributes.width, p.path, p.attributes.caption,
                             p.attributes.label),
                   WalkSkipChildren)

-----------------------------------------------------------------------------
(* The walker *)

MaxNodes == 3

MaxDepth == 3

Blocks ==
    {"Heading", "Blockquote", "CodeBlock", "FencedCodeBlock", "HTMLBlock", "List",
     "Paragraph", "ThematicBreak"}

Inlines ==
    {"AutoLink", "CodeSpan", "Emphasis", "Image", "Link", "RawHTML", "Text", "String"}

\* The kinds of node the parser puts under a node of each kind.
ChildKinds(kind) ==
    CASE kind \in {"Document", "Blockquote"} -> Blocks
      [] kind = "List" -> {"ListItem"}
      [] kind = "ListItem" -> Blocks \cup {"TextBlock"}
      [] kind \in {"Heading", "Paragraph", "TextBlock", "Emphasis", "Link"} -> Inlines
      [] OTHER -> {}

\* The children promised so far and not yet walked: one for every entered node
\* whose last child has a next sibling.
Owed(st) == Cardinality({i \in DOMAIN st : st[i].more})

\* ast.Walk's next call, drawing the next node of the tree from Nodes: the
\* Document first; then a child of the innermost entered node, if that node's
\* handler returned WalkContinue and it has a child left; else the leaving call
\* of the innermost entered node.
Walk(Nodes) ==
    /\ pc = "walk"
    /\ pc' = "call"
    /\ UNCHANGED <<r, source, w, ret, queries>>
    /\ IF stack = <<>>
       THEN /\ call' = [node |-> DocumentNode, entering |-> TRUE, parent |-> "None",
                        kids |-> 0]
            /\ UNCHANGED <<stack, count>>
       ELSE \/ /\ Top.status = WalkContinue
               /\ Top.kids = 0 \/ Top.more
               /\ Len(stack) <= MaxDepth
               /\ \E n \in Nodes :
                    LET st == [stack EXCEPT ![Len(stack)].kids = @ + 1,
                                            ![Len(stack)].more = n.hasNext]
                    IN  /\ n.kind \in ChildKinds(Top.node.kind)
                        /\ count + 1 + Owed(st) <= MaxNodes
                        /\ call' = [node |-> n, entering |-> TRUE,
                                    parent |-> Top.node.kind, kids |-> 0]
                        /\ stack' = st
                        /\ count' = count + 1
            \/ /\ ~(Top.kids > 0 /\ Top.more)
               /\ call' = [node |-> Top.node, entering |-> FALSE,
                           parent |-> IF Len(stack) > 1
                                      THEN stack[Len(stack) - 1].node.kind
                                      ELSE "None",
                           kids |-> Top.kids]
               /\ UNCHANGED <<stack, count>>

-----------------------------------------------------------------------------
(* Inputs: renderer configurations, sources and nodes *)

\* UTF-8 encodings: U+00E9, U+20AC, U+1F600
eAcute == <<195, 169>>

euro == <<226, 130, 172>>

grin == <<240, 159, 152, 128>>

\* A renderer as NewRenderer builds it from its options.  Preamble and
\* DeclareUnicode are nil (the empty sequence) or a one-element sequence; a
\* unicode mapper is the set of code points it replaces and its replacement.
Renderers(offsets, nonumberings, preambles, unsafes, mappers, titles) ==
    [HeadingLevelOffset : offsets, NoHeadingNumbering : nonumberings,
     Preamble : preambles, Unsafe : unsafes, DeclareUnicode : mappers,
     makeTitle : titles]

WithNext(nodes) == {[n EXCEPT !.hasNext = b] : n \in nodes, b \in BOOLEAN}

WalkNodes ==
    WithNext(
        {[kind |-> "Heading", hasNext |-> FALSE, Level |-> l] : l \in {1, 6}}
        \cup {[kind |-> k, hasNext |-> FALSE] :
                k \in {"Blockquote", "HTMLBlock", "ListItem", "Paragraph", "TextBlock",
                       "ThematicBreak", "RawHTML"}}
        \cup {[kind |-> "CodeBlock", hasNext |-> FALSE, Lines |-> <<<<0, Len(source)>>>>]}
        \cup {[kind |-> "FencedCodeBlock", hasNext |-> FALSE,
               Lines |-> <<<<0, Len(source)>>>>, Language |-> B("go")]}
        \cup {[kind |-> "List", hasNext |-> FALSE, IsOrdered |-> o] : o \in BOOLEAN}
        \cup {[kind |-> "AutoLink", hasNext |-> FALSE, AutoLinkType |-> "Email",
               Segment |-> <<0, Len(source)>>]}
        \cup {[kind |-> "CodeSpan", hasNext |-> FALSE, Children |-> <<<<0, Len(source)>>>>]}
        \cup {[kind |-> "Emphasis", hasNext |-> FALSE, Level |-> 2]}
        \cup {[kind |-> "Image", hasNext |-> FALSE, Destination |-> B("a_b?width=1"),
               Title |-> B("t")]}
        \cup {[kind |-> "Link", hasNext |-> FALSE, Destination |-> d] :
                d \in {B("a_b"), B("javascript:x")}}
        \cup {[kind |-> "Text", hasNext |-> FALSE, Segment |-> s, IsRaw |-> raw,
               SoftLineBreak |-> FALSE, HardLineBreak |-> FALSE] :
                s \in {<<0, Len(source)>>}, raw \in BOOLEAN}
        \cup {[kind |-> "String", hasNext |-> FALSE, Value |-> B("x_"), IsCode |-> FALSE,
               IsRaw |-> FALSE]})

customPreamble == B("\\documentclass{book}\n")

WalkSources == {eAcute \o B("_\\end\n")}

\* A unicode mapper that replaces the code points of a set, each by "e".
Mapper(replaced) == [replaced |-> replaced, raw |-> B("e")]

WalkRenderers ==
    Renderers({0, 1}, {FALSE}, {<<>>}, BOOLEAN, {<<>>, <<Mapper({233})>>}, {FALSE})

\* The state when a render pass starts.
Start(renderer, src) ==
    /\ r = renderer
    /\ source = src
    /\ w = <<>>
    /\ pc = "walk"
    /\ call = NoCall
    /\ ret = NoRet
    /\ stack = <<>>
    /\ count = 0
    /\ queries = <<>>

Init == \E renderer \in WalkRenderers, src \in WalkSources : Start(renderer, src)

Handlers ==
    \/ renderDocument
    \/ renderHeading
    \/ renderBlockquote
    \/ renderCodeBlock
    \/ renderFencedCodeBlock
    \/ renderHTMLBlock
    \/ renderList
    \/ renderListItem
    \/ renderParagraph
    \/ renderTextBlock
    \/ renderThematicBreak
    \/ renderAutoLink
    \/ renderCodeSpan
    \/ renderEmphasis
    \/ renderImage
    \/ renderLink
    \/ renderRawHTML
    \/ renderText
    \/ renderString

Next == Walk(WalkNodes) \/ Handlers

\* A render pass over any tree of up to MaxNodes nodes under the Document.
Spec == Init /\ [][Next]_vars

-----------------------------------------------------------------------------
(* C1: a render pass always completes *)

\* C1: for any valid tree, source and configuration, no handler call aborts: every
\* call returns a walk status with a nil error, so the pass is never cut short
\* before the Document leaving call.
C1_NoHandlerAborts == pc # "panic"

-----------------------------------------------------------------------------
(* C2: the heading command is the table entry at the clamped level *)

MaxOffset == 6

HeadingLevels == 1..6

HeadingNodes == {[kind |-> "Heading", hasNext |-> FALSE, Level |-> l] : l \in HeadingLevels}

InitHeading ==
    \E renderer \in Renderers((0 - MaxOffset)..MaxOffset, BOOLEAN, {<<>>}, {FALSE},
                              {<<>>}, {FALSE}),
       src \in {B("h\n")} :
        Start(renderer, src)

NextHeading == Walk(HeadingNodes) \/ renderDocument \/ renderHeading

\* The render passes over a document of one heading, for every level and offset.
SpecHeading == InitHeading /\ [][NextHeading]_vars

Clamp(x, lo, hi) == IF x < lo THEN lo ELSE IF x > hi THEN hi ELSE x

\* C2: entering a heading never aborts, and the opening command written is
\* headingTable[clamp(level - 1 + offset, 0, 5)][numberingSuppressed], the write
\* after the handler's comment.
C2_HeadingCommandClamped ==
    /\ pc # "panic"
    /\ (ret.node.kind = "Heading" /\ ret.entering) =>
          /\ Len(w) >= ret.from + 2
          /\ w[ret.from + 2] =
                Lit(headingTable[Clamp(ret.node.Level - 1 + r.HeadingLevelOffset, 0, 5)]
                                [bool2int(r.NoHeadingNumbering)])

-----------------------------------------------------------------------------
(* C3: the order of the Document handler's writes *)

EnvelopeRenderers ==
    Renderers({0}, {FALSE}, {<<>>, <<customPreamble>>}, {FALSE},
              {<<>>, <<Mapper({233})>>}, BOOLEAN)

InitEnvelope ==
    \E renderer \in EnvelopeRenderers, src \in WalkSources : Start(renderer, src)

\* The render passes over any tree of up to MaxNodes nodes, for every choice of
\* preamble, unicode mapper and title injection.
SpecEnvelope == InitEnvelope /\ [][Next]_vars

\* The positions of a write in the output.
Positions(x) == {i \in 1..Len(w) : w[i] = x}

PreambleWrite == IF r.Preamble = <<>> THEN Lit(defaultPreamble) ELSE Data(r.Preamble[1])

\* C3: in a completed pass the preamble (the custom one if configured, else the
\* default) comes first, after comments only; every unicode declaration lies
\* between it and the begin-body marker; the begin-body marker is written once;
\* the title command is written right after it if r.makeTitle and not at all
\* otherwise; the node content follows; the end-body marker is written once, as
\* the last write; and the call that wrote it is the Document leaving call, which
\* returned WalkStop.
C3_DocumentEnvelopeOrder ==
    /\ Cardinality(Positions(Lit(beginDocument))) <= 1
    /\ pc = "done" =>
        /\ ret.node.kind = "Document" /\ ~ret.entering /\ ret.status = WalkStop
        /\ ret.from = Len(w) - 2
        /\ Positions(Lit(endDocument)) = {Len(w)}
        /\ \E p, b \in 1..Len(w) :
            /\ p < b
            /\ w[p] = PreambleWrite
            /\ \A i \in 1..(p - 1) : w[i].k = "lit" /\ w[i] # Lit(beginDocument)
            /\ Positions(Lit(beginDocument)) = {b}
            /\ \A i \in Positions(Lit(unicodeDecl)) : p < i /\ i < b
            /\ Positions(Lit(makeTitleCommand)) = IF r.makeTitle THEN {b + 1} ELSE {}
            /\ b + bool2int(r.makeTitle) <= ret.from

\* A completed pass with a custom preamble, a declared code point, the title and
\* two nodes of content.
C3_Witness ==
    /\ pc = "done"
    /\ r.makeTitle
    /\ r.Preamble # <<>>
    /\ Positions(Lit(unicodeDecl)) # {}
    /\ count >= 2
    /\ ret.from > 11

-----------------------------------------------------------------------------
(* C4: escapeLaTeX *)

MaxLen == 3

\* The byte sequences of up to n bytes of a set.
ByteSeqs(bytes, n) == UNION {[1..k -> bytes] : k \in 0..n}

\* backslash, tilde, caret, ampersand, percent, dollar, hash, underscore, open and
\* close brace
Reserved == {92, 126, 94, 38, 37, 36, 35, 95, 123, 125}

ParagraphNode == [kind |-> "Paragraph", hasNext |-> FALSE]

\* Strings that are neither code nor raw, of every value of up to MaxLen bytes
\* among the reserved bytes, a letter and a newline.
EscapeNodes ==
    {[kind |-> "String", hasNext |-> FALSE, Value |-> s, IsCode |-> FALSE,
      IsRaw |-> FALSE] : s \in ByteSeqs(Reserved \cup {97, 10}, MaxLen)}

PlainRenderers == Renderers({0}, {FALSE}, {<<>>}, {FALSE}, {<<>>}, {FALSE})

InitEscape == \E renderer \in PlainRenderers, src \in {B("s\n")} : Start(renderer, src)

NextEscape ==
    Walk({ParagraphNode} \cup EscapeNodes) \/ renderDocument \/ renderParagraph
        \/ renderString

\* The render passes over a paragraph of one string, which renderString hands to
\* escapeLaTeX.
SpecEscape == InitEscape /\ [][NextEscape]_vars

\* The bytes the last returned call wrote.
Written == Stream(SubSeq(w, ret.from + 1, Len(w)))

\* Each byte of s in order: its substitution if it is reserved, else itself.
Substituted(s) ==
    Flatten([i \in 1..Len(s) |-> IF s[i] \in Reserved THEN escapeTable[s[i]] ELSE <<s[i]>>])

\* C4: escapeLaTeX writes, in order, each non-reserved byte unchanged and for each
\* reserved byte its substitution of the escape table, which is not empty; so it
\* is the identity on input without reserved bytes, writes prefix + substitution
\* + suffix for input with one reserved byte, and never writes fewer bytes than
\* its input has.
C4_EscapeSubstitutes ==
    (ret.node.kind = "String" /\ ret.entering) =>
        LET s == ret.node.Value
            at == {i \in 1..Len(s) : s[i] \in Reserved}
        IN  /\ \A c \in Reserved : escapeTable[c] # <<>>
            /\ Written = Substituted(s)
            /\ Len(Written) >= Len(s)
            /\ at = {} => Written = s
            /\ \A i \in at :
                 at = {i} => Written = SubSeq(s, 1, i - 1) \o escapeTable[s[i]]
                                          \o SubSeq(s, i + 1, Len(s))

\* escapeLaTeX has returned from an input with two reserved bytes around another
\* byte.
C4_Witness ==
    /\ ret.node.kind = "String" /\ ret.entering
    /\ Len(ret.node.Value) = 3
    /\ ret.node.Value[1] \in Reserved
    /\ ret.node.Value[2] \notin Reserved
    /\ ret.node.Value[3] \in Reserved

-----------------------------------------------------------------------------
(* C5: user text is written through escapeLaTeX *)

\* The nodes whose text is not verbatim: text and strings that are not raw (or
\* code), links, autolinks and images.
NotVerbatim(n) ==
    \/ n.kind = "Text" /\ ~n.IsRaw
    \/ n.kind = "String" /\ ~n.IsCode /\ ~n.IsRaw
    \/ n.kind \in {"Link", "AutoLink", "Image"}

\* C5: the input bytes an entering call writes for a node whose text is not
\* verbatim hold no reserved byte: every reserved byte of the text has gone
\* through the escaping engine.
C5_UserTextEscaped ==
    (ret.entering /\ NotVerbatim(ret.node)) =>
        \A i \in (ret.from + 1)..Len(w) :
            w[i].k = "data" => \A j \in 1..Len(w[i].b) : w[i].b[j] \notin Reserved

\* The same, of every such node but the images.
C5_UserTextEscapedButImages ==
    (ret.entering /\ NotVerbatim(ret.node) /\ ret.node.kind # "Image") =>
        \A i \in (ret.from + 1)..Len(w) :
            w[i].k = "data" => \A j \in 1..Len(w[i].b) : w[i].b[j] \notin Reserved

-----------------------------------------------------------------------------
(* C6: the lines of code blocks *)

MaxLines == 2

\* The lines a source is made of here: plain, the closing token alone, inside a
\* line, cut short, in another case, and reserved bytes.
CodeLines ==
    {B("a\n"), B("\\end\n"), B("x\\end{minted}\n"), B("\\en\n"), B("\\End\n"),
     B("_%\n")}

CodeSources == {Flatten(ls) : ls \in UNION {[1..k -> CodeLines] : k \in 0..MaxLines}}

\* The segments of the lines of src from byte i on, the current line starting at
\* byte start: each line with its newline.
RECURSIVE LineSegments(_, _, _)
LineSegments(src, start, i) ==
    IF i >= Len(src)
    THEN IF start < Len(src) THEN <<<<start, Len(src)>>>> ELSE <<>>
    ELSE IF src[i + 1] = 10
         THEN <<<<start, i + 1>>>> \o LineSegments(src, i + 1, i + 1)
    ELSE LineSegments(src, start, i + 1)

\* The code blocks whose lines are the lines of the source.
CodeNodes ==
    {[kind |-> "CodeBlock", hasNext |-> FALSE, Lines |-> LineSegments(source, 0, 0)]}
    \cup {[kind |-> "FencedCodeBlock", hasNext |-> FALSE,
           Lines |-> LineSegments(source, 0, 0), Language |-> l] :
            l \in {<<>>, B("go"), B("nolang")}}

InitCode ==
    \E renderer \in Renderers({0}, {FALSE}, {<<>>}, BOOLEAN, {<<>>}, {FALSE}),
       src \in CodeSources :
        Start(renderer, src)

NextCode == Walk(CodeNodes) \/ renderDocument \/ renderCodeBlock \/ renderFencedCodeBlock

\* The render passes over one code block, fenced or not, of up to MaxLines lines,
\* with unsafe mode on and off.
SpecCode == InitCode /\ [][NextCode]_vars

\* The line holds the bytes of \end in a row.
HasEndToken(text) ==
    \E i \in 1..(Len(text) - 3) :
        text[i] = 92 /\ text[i + 1] = 101 /\ text[i + 2] = 110 /\ text[i + 3] = 100

\* What C6 says is written for the lines from the i-th on.
RECURSIVE ExpectedLines(_, _, _)
ExpectedLines(unsafe, texts, i) ==
    IF i > Len(texts) THEN <<>>
    ELSE (IF ~unsafe /\ HasEndToken(texts[i])
          THEN <<Lit(skippedLine), Data(texts[i])>>
          ELSE <<Data(texts[i])>>)
         \o ExpectedLines(unsafe, texts, i + 1)

\* C6: the writes of a code block's entering call end with its lines in source
\* order, each as it is in the source, but that with unsafe mode off a line
\* holding \end comes after a diagnostic comment that ends in a new line and a
\* comment character, so that the line is a comment; before the lines only the
\* begin marker (and the language) is written.
C6_CodeLinesVerbatimOrCommented ==
    (ret.entering /\ ret.node.kind \in {"CodeBlock", "FencedCodeBlock"}) =>
        LET texts == [i \in 1..Len(ret.node.Lines) |-> Value(ret.node.Lines[i])]
            lines == ExpectedLines(r.Unsafe, texts, 1)
            first == Len(w) - Len(lines)
        IN  /\ first >= ret.from + 3
            /\ SubSeq(w, first + 1, Len(w)) = lines
            /\ w[first] = NL
            /\ \A i \in (ret.from + 1)..first : w[i].k = "lit" \/ w[i].b = ret.node.Language
            /\ skippedLine[1] = 37
            /\ skippedLine[Len(skippedLine) - 1] = 10
            /\ skippedLine[Len(skippedLine)] = 37

\* With unsafe mode off, a block of two lines has been written whose second line
\* holds \end after another byte and whose first line does not hold it.
C6_Witness ==
    /\ ret.entering /\ ret.node.kind = "FencedCodeBlock"
    /\ ~r.Unsafe
    /\ Len(ret.node.Lines) = 2
    /\ ~HasEndToken(Value(ret.node.Lines[1]))
    /\ HasEndToken(Value(ret.node.Lines[2]))
    /\ Value(ret.node.Lines[2])[1] # 92
    /\ w[Len(w) - 1] = Lit(skippedLine)

-----------------------------------------------------------------------------
(* C7: the destination of a link *)

\* C7: the entering call of a link writes the opening of the hyperlink command,
\* then the destination with its reserved bytes substituted if unsafe mode is on
\* or the destination is not dangerous and nothing otherwise, then the separator
\* of the two arguments, and returns WalkContinue without failing; the leaving
\* call writes the closing brace.
C7_LinkDestinationGuarded ==
    (ret.node.kind = "Link") =>
        /\ pc # "panic"
        /\ ret.status = WalkContinue
        /\ IF ret.entering
           THEN /\ Len(w) >= ret.from + 2
                /\ w[ret.from + 1] = Lit(B("\\href{"))
                /\ w[Len(w)] = Lit(B("}{"))
                /\ Stream(SubSeq(w, ret.from + 2, Len(w) - 1))
                     = IF r.Unsafe \/ ~IsDangerousURL(ret.node.Destination)
                       THEN Substituted(ret.node.Destination)
                       ELSE <<>>
           ELSE /\ Len(w) = ret.from + 1
                /\ w[Len(w)] = Lit(B("}"))

\* With unsafe mode off, a link with a dangerous destination has been left: its
\* destination field is empty and its label has been written after it.
C7_Witness ==
    /\ ret.node.kind = "Link" /\ ~ret.entering
    /\ ~r.Unsafe /\ IsDangerousURL(ret.node.Destination)
    /\ \E i \in 1..(Len(w) - 3) :
        /\ w[i] = Lit(B("\\href{"))
        /\ w[i + 1] = Lit(B("}{"))
        /\ i + 2 < Len(w)
        /\ \A j \in (i + 2)..(Len(w) - 1) : w[j].k \in {"data", "esc"}
    /\ w[Len(w)] = Lit(B("}"))

-----------------------------------------------------------------------------
(* C8: the scheme prefix of email autolinks *)

\* Targets: an address, bare and behind the scheme in three letter cases, behind
\* another scheme that starts alike, and behind the bytes of mailToPrefix, whole
\* and cut short.
AutoLinkSources ==
    {p \o a : p \in {<<>>, B("mailto:"), B("MAILTO:"), B("MailTo:"), B("mailto2:"),
                     B(":mailto"), B(":")},
              a \in {B("x@y"), B("x_@y")}}

\* The autolinks of either type whose target is the whole source.
AutoLinkNodes ==
    {[kind |-> "AutoLink", hasNext |-> FALSE, AutoLinkType |-> t,
      Segment |-> <<0, Len(source)>>] : t \in {"Email", "URL"}}

InitAutoLink ==
    \E renderer \in PlainRenderers, src \in AutoLinkSources : Start(renderer, src)

NextAutoLink ==
    Walk({ParagraphNode} \cup AutoLinkNodes) \/ renderDocument \/ renderParagraph
        \/ renderAutoLink

\* The render passes over a paragraph of one autolink.
SpecAutoLink == InitAutoLink /\ [][NextAutoLink]_vars

\* The target starts with mailto: in some letter case.
HasScheme(url) ==
    /\ Len(url) >= 7
    /\ [i \in 1..7 |-> IF url[i] >= 65 /\ url[i] <= 90 THEN url[i] + 32 ELSE url[i]]
         = B("mailto:")

\* The bytes the last returned call wrote between the opening of the hyperlink
\* command and the separator of its arguments.
DestinationWritten ==
    LET sep == CHOOSE k \in (ret.from + 2)..Len(w) :
                   /\ w[k] = Lit(B("}{"))
                   /\ \A j \in (ret.from + 2)..(k - 1) : w[j] # Lit(B("}{"))
    IN  Stream(SubSeq(w, ret.from + 2, sep - 1))

\* C8: the destination an email autolink writes is its target, reserved bytes
\* substituted, behind mailto: exactly once: as it is if the target starts with
\* mailto: in any letter case, with mailto: put before it otherwise.
C8_MailtoExactlyOnce ==
    (ret.entering /\ ret.node.kind = "AutoLink" /\ ret.node.AutoLinkType = "Email") =>
        LET url == Value(ret.node.Segment) IN
        DestinationWritten = IF HasScheme(url)
                             THEN Substituted(url)
                             ELSE B("mailto:") \o Substituted(url)

-----------------------------------------------------------------------------
(* C9: the unicode declarations *)

MaxChars == 3

\* The characters a source is made of here: a letter, U+00E9, U+20AC, U+1F600 and
\* a byte that is no encoding.
SourceChars == {B("a"), eAcute, euro, grin, <<255>>}

DocumentSources ==
    {Flatten(cs) : cs \in UNION {[1..k -> SourceChars] : k \in 0..MaxChars}}

\* Mappers that replace nothing, one, two and all three of the code points.
DocumentMappers ==
    {<<Mapper({})>>, <<Mapper({233})>>, <<Mapper({233, 8364})>>,
     <<Mapper({233, 8364, 128512})>>}

InitDocument ==
    \E renderer \in Renderers({0}, {FALSE}, {<<>>}, {FALSE}, DocumentMappers, {FALSE}),
       src \in DocumentSources :
        Start(renderer, src)

NextDocument == Walk({ParagraphNode}) \/ renderDocument \/ renderParagraph

\* The render passes with a unicode mapper over sources of up to MaxChars
\* characters, the tree being the Document alone or with a paragraph.
SpecDocument == InitDocument /\ [][NextDocument]_vars

\* The code points of the multi-byte encodings of src from byte i on, in order.
RECURSIVE NonASCII(_, _)
NonASCII(src, i) ==
    IF i >= Len(src) THEN <<>>
    ELSE LET d == DecodeRune(Slice(src, i, Len(src))) IN
         (IF d[2] > 1 THEN <<d[1]>> ELSE <<>>) \o NonASCII(src, i + d[2])

\* The elements of s in the order of their first occurrences.
RECURSIVE FirstOccurrences(_)
FirstOccurrences(s) ==
    IF s = <<>> THEN <<>>
    ELSE LET front == FirstOccurrences(SubSeq(s, 1, Len(s) - 1))
             last == s[Len(s)]
         IN  IF \E i \in 1..Len(front) : front[i] = last THEN front
             ELSE Append(front, last)

\* The bytes of the declaration directive of code point c: its number in
\* hexadecimal, of four digits at least, and its replacement.
Directive(c, raw) ==
    LET num == FormatHex(c)
        pad == [i \in 1..max(0, 4 - Len(num)) |-> 48]
    IN  unicodeDecl \o pad \o num \o B("}{") \o raw \o B("}\n")

\* C9: once the entering call of the Document has acted with a mapper configured,
\* it has returned; the mapper has been queried with the distinct non-ASCII code
\* points of the source, each once, in the order of their first occurrences; and
\* what is written between the new line behind the preamble and the begin-body
\* marker is one directive for each of them the mapper replaces, in that order.
C9_OneDeclarationPerCodePoint ==
    (r.DeclareUnicode # <<>> /\ w # <<>>) =>
        LET mapper == r.DeclareUnicode[1]
            points == FirstOccurrences(NonASCII(source, 0))
            replaced == SelectSeq(points, LAMBDA c : c \in mapper.replaced)
            first == CHOOSE i \in 1..Len(w) :
                        w[i] = NL /\ \A j \in 1..(i - 1) : w[j] # NL
            body == CHOOSE i \in 1..Len(w) :
                        w[i] = Lit(beginDocument)
                        /\ \A j \in 1..(i - 1) : w[j] # Lit(beginDocument)
        IN  /\ pc # "panic"
            /\ queries = points
            /\ \E i \in 1..Len(w) : w[i] = Lit(beginDocument)
            /\ Stream(SubSeq(w, first + 1, body - 1))
                 = Flatten([k \in 1..Len(replaced) |-> Directive(replaced[k], mapper.raw)])

-----------------------------------------------------------------------------
(* C10: the attributes of an image *)

MaxPairs == 2

\* The pairs a query is made of here: the three recognized keys, an unrecognized
\* one, a pair without '=', the empty pair, a value holding '?', and a pair with
\* a second '='.
ImagePairs ==
    {B("width=0.5"), B("label=l"), B("caption=A%20B"), B("bogus=1"), B("novalue"),
     <<>>, B("width=2?x"), B("width=a=b")}

RECURSIVE Join(_, _)
Join(ts, sep) ==
    IF Len(ts) = 0 THEN <<>>
    ELSE IF Len(ts) = 1 THEN ts[1]
    ELSE ts[1] \o sep \o Join(Tail(ts), sep)

\* A path alone, and a path with a query of up to MaxPairs pairs.
ImageDestinations ==
    {B("pic.png")}
    \cup {B("pic.png?") \o Join(ts, B("&")) :
            ts \in UNION {[1..k -> ImagePairs] : k \in 1..MaxPairs}}

ImageNodes ==
    {[kind |-> "Image", hasNext |-> FALSE, Destination |-> d, Title |-> B("t")] :
        d \in ImageDestinations}

InitImage == \E renderer \in PlainRenderers, src \in {B("s\n")} : Start(renderer, src)

NextImage ==
    Walk({ParagraphNode} \cup ImageNodes) \/ renderDocument \/ renderParagraph
        \/ renderImage

\* The render passes over a paragraph of one image.
SpecImage == InitImage /\ [][NextImage]_vars

\* The positions of byte c in s.
Occurrences(s, c) == {i \in 1..Len(s) : s[i] = c}

\* The pieces of s between the occurrences of byte c, in order.
Pieces(s, c) ==
    LET at == Occurrences(s, c)
        nth(k) == CHOOSE i \in at : Cardinality({j \in at : j < i}) = k - 1
        lo(k) == IF k = 1 THEN 0 ELSE nth(k - 1)
        hi(k) == IF k = Cardinality(at) + 1 THEN Len(s) + 1 ELSE nth(k)
    IN  [k \in 1..(Cardinality(at) + 1) |-> SubSeq(s, lo(k) + 1, hi(k) - 1)]

\* What C10 says of destination d: the path before the first '?', the pairs of
\* the query behind it.
ClaimedPath(d) ==
    IF Occurrences(d, 63) = {} THEN d
    ELSE SubSeq(d, 1, (CHOOSE i \in Occurrences(d, 63) :
                          \A j \in Occurrences(d, 63) : i <= j) - 1)

ClaimedPairs(d) ==
    IF Occurrences(d, 63) = {} THEN <<>>
    ELSE Pieces(SubSeq(d, Len(ClaimedPath(d)) + 2, Len(d)), 38)

\* The value the pairs give the field of a key: that of the last pair with this
\* key, nothing without one.
ClaimedField(pairs, key) ==
    LET with == {k \in 1..Len(pairs) :
                    Len(pairs[k]) > Len(key)
                    /\ SubSeq(pairs[k], 1, Len(key) + 1) = key \o B("=")}
    IN  IF with = {} THEN <<>>
        ELSE LET k == CHOOSE k \in with : \A j \in with : j <= k
             IN  SubSeq(pairs[k], Len(key) + 2, Len(pairs[k]))

\* The pairs that get a diagnostic: those without '=' and those with another key.
ClaimedDiagnostics(pairs) ==
    {k \in 1..Len(pairs) :
        \/ Occurrences(pairs[k], 61) = {}
        \/ \A key \in {B("width"), B("label"), B("caption")} :
            ~(Len(pairs[k]) > Len(key)
              /\ SubSeq(pairs[k], 1, Len(key) + 1) = key \o B("="))}

\* C10: for an image whose pairs have one '=' at most, the entering call writes
\* one diagnostic comment for each pair without '=' or with an unrecognized key,
\* then the figure block with the path before the first '?' of the destination
\* and with width, caption and label as the pairs of everything behind that '?'
\* give them (%20 of the caption turned into a space), and returns
\* WalkSkipChildren.
C10_ImageAttributesParsed ==
    (ret.entering /\ ret.node.kind = "Image"
        /\ \A k \in 1..Len(ClaimedPairs(ret.node.Destination)) :
            Cardinality(Occurrences(ClaimedPairs(ret.node.Destination)[k], 61)) <= 1) =>
        LET d == ret.node.Destination
            pairs == ClaimedPairs(d)
            block == figure(ClaimedField(pairs, B("width")), ClaimedPath(d),
                            ReplaceAll(ClaimedField(pairs, B("caption")), B("%20"), B(" ")),
                            ClaimedField(pairs, B("label")))
        IN  /\ pc # "panic"
            /\ ret.status = WalkSkipChildren
            /\ Len(w) >= ret.from + Len(block)
            /\ Stream(SubSeq(w, Len(w) - Len(block) + 1, Len(w))) = Stream(block)
            /\ Cardinality({i \in (ret.from + 1)..Len(w) :
                              w[i] = Lit(B("\n% goldmark-latex: image "))})
                 = Cardinality(ClaimedDiagnostics(pairs))

-----------------------------------------------------------------------------
(* C11: haslowerprefix against its reference *)

MaxPrefixLen == 3

\* The bytes the arguments are made of here: a letter in both cases, a colon, and
\* the bytes of U+00C9 and U+00E9, which alone are no encodings.
PrefixBytes == {97, 65, 58, 195, 137, 169}

\* utf8.AppendRune(nil, c)
EncodeRune(c) ==
    IF c < 128 THEN <<c>>
    ELSE IF c < 2048 THEN <<192 + (c \div 64), 128 + (c % 64)>>
    ELSE IF c < 65536
         THEN <<224 + (c \div 4096), 128 + ((c \div 64) % 64), 128 + (c % 64)>>
    ELSE <<240 + (c \div 262144), 128 + ((c \div 4096) % 64),
           128 + ((c \div 64) % 64), 128 + (c % 64)>>

\* bytes.Map(unicode.ToLower, s): each rune decoded, mapped and encoded again, a
\* byte that is no encoding becoming the encoding of RuneError.
RECURSIVE bytesMapToLower(_)
bytesMapToLower(s) ==
    IF s = <<>> THEN <<>>
    ELSE LET d == DecodeRune(s) IN
         EncodeRune(ToLower(d[1])) \o bytesMapToLower(SubSeq(s, d[2] + 1, Len(s)))

\* bytes.ToLower(s): byte by byte if s is ASCII, bytes.Map otherwise.
bytesToLower(s) ==
    IF \A i \in 1..Len(s) : s[i] < 128
    THEN [i \in 1..Len(s) |-> IF s[i] >= 65 /\ s[i] <= 90 THEN s[i] + 32 ELSE s[i]]
    ELSE bytesMapToLower(s)

\* A call of haslowerprefix alone, on any two arguments of up to MaxPrefixLen
\* bytes.
InitPrefix ==
    \E renderer \in PlainRenderers, a \in ByteSeqs(PrefixBytes, MaxPrefixLen),
       b \in ByteSeqs(PrefixBytes, MaxPrefixLen) :
        /\ r = renderer
        /\ source = a
        /\ w = <<>>
        /\ pc = "call"
        /\ call = [func |-> "haslowerprefix", a |-> a, b |-> b]
        /\ ret = NoRet
        /\ stack = <<>>
        /\ count = 0
        /\ queries = <<>>

\* The call returns.
returnHaslowerprefix ==
    /\ pc = "call"
    /\ call.func = "haslowerprefix"
    /\ ret' = [func |-> "haslowerprefix", a |-> call.a, b |-> call.b,
               result |-> haslowerprefix(call.a, call.b)]
    /\ pc' = "done"
    /\ call' = NoCall
    /\ UNCHANGED <<r, source, w, stack, count, queries>>

NextPrefix == returnHaslowerprefix

SpecPrefix == InitPrefix /\ [][NextPrefix]_vars

\* C11: haslowerprefix(a, b) returns what bytes.HasPrefix(bytes.ToLower(a),
\* bytes.ToLower(b)) returns, for every a and b, a shorter than b and a empty
\* included.
C11_HasLowerPrefixIsReference ==
    (pc = "done") =>
        ret.result = HasPrefix(bytesToLower(ret.a), bytesToLower(ret.b))

\* The same for the calls whose first argument is not shorter than the second.
C11_HasLowerPrefixIsReferenceOnLonger ==
    (pc = "done" /\ Len(ret.a) >= Len(ret.b)) =>
        ret.result = HasPrefix(bytesToLower(ret.a), bytesToLower(ret.b))

-----------------------------------------------------------------------------
(* C12: the nesting of the structural markers *)

\* One node of every kind, with and without a next sibling; the text of the user
\* holds a brace and the closing token.
NestingNodes ==
    WithNext(
        {[kind |-> k, hasNext |-> FALSE] :
            k \in {"Blockquote", "HTMLBlock", "ListItem", "Paragraph", "TextBlock",
                   "ThematicBreak", "RawHTML"}}
        \cup {[kind |-> "Heading", hasNext |-> FALSE, Level |-> 6]}
        \cup {[kind |-> "CodeBlock", hasNext |-> FALSE, Lines |-> <<<<0, Len(source)>>>>]}
        \cup {[kind |-> "FencedCodeBlock", hasNext |-> FALSE,
               Lines |-> <<<<0, Len(source)>>>>, Language |-> B("go")]}
        \cup {[kind |-> "List", hasNext |-> FALSE, IsOrdered |-> o] : o \in BOOLEAN}
        \cup {[kind |-> "AutoLink", hasNext |-> FALSE, AutoLinkType |-> "Email",
               Segment |-> <<0, Len(source)>>]}
        \cup {[kind |-> "CodeSpan", hasNext |-> FALSE, Children |-> <<<<0, Len(source)>>>>]}
        \cup {[kind |-> "Emphasis", hasNext |-> FALSE, Level |-> 1]}
        \cup {[kind |-> "Image", hasNext |-> FALSE, Destination |-> B("a}?width=1"),
               Title |-> B("t")]}
        \cup {[kind |-> "Link", hasNext |-> FALSE, Destination |-> B("a{b")]}
        \cup {[kind |-> "Text", hasNext |-> FALSE, Segment |-> <<0, Len(source)>>,
               IsRaw |-> TRUE, SoftLineBreak |-> FALSE, HardLineBreak |-> TRUE]}
        \cup {[kind |-> "String", hasNext |-> FALSE, Value |-> B("}"), IsCode |-> FALSE,
               IsRaw |-> FALSE]})

InitNesting ==
    \E renderer \in Renderers({-1}, {TRUE}, {<<>>}, {TRUE}, {<<>>}, {TRUE}),
       src \in {B("{\\end{quote}\n")} :
        Start(renderer, src)

NextNesting == Walk(NestingNodes) \/ Handlers

\* The render passes over the trees of up to MaxNodes nodes of every kind, with
\* unsafe mode on, so that the text of the user is written as it is.
SpecNesting == InitNesting /\ [][NextNesting]_vars

\* The write is a comment: a '%' at the start of a line, and the line's end as
\* its last byte.
IsComment(b) ==
    /\ Len(b) >= 2
    /\ b[1] = 37 \/ (b[1] = 10 /\ b[2] = 37)
    /\ b[Len(b)] = 10
    /\ \A j \in 2..(Len(b) - 1) : b[j] # 10

\* The bytes the handlers wrote of their own, from the begin-body marker on: the
\* writes of literals and formats that are no comments, without the text of the
\* user between them.
HandlerBytes ==
    LET body == {i \in 1..Len(w) : w[i] = Lit(beginDocument)}
        first == IF body = {} THEN Len(w) + 1
                 ELSE CHOOSE i \in body : \A j \in body : i <= j
    IN  Stream(SelectSeq(SubSeq(w, first, Len(w)),
                         LAMBDA x : x.k \in {"lit", "fmt"} /\ ~IsComment(x.b)))

\* What stands for a marker that closes another than the last one opened.
Unbalanced == <<<<0>>>>

Brace == <<123>>

\* The markers open after the bytes of s from the i-th on, open being those open
\* before: \begin{tag} opens tag, \end{tag} closes it, another opening brace opens
\* a brace and another closing brace closes it; each closes the last one opened
\* or the whole is Unbalanced.  Bytes that are no backslash and no brace are
\* passed over at once.
RECURSIVE OpenMarkers(_, _, _)
OpenMarkers(s, i, open) ==
    LET at(p) == i + Len(p) - 1 <= Len(s) /\ SubSeq(s, i, i + Len(p) - 1) = p
        closing(from) == {e \in from..Len(s) : s[e] = 125}
        close(from) == CHOOSE e \in closing(from) : \A j \in closing(from) : e <= j
        top == open[Len(open)]
        pop == SubSeq(open, 1, Len(open) - 1)
        marks == {j \in i..Len(s) : s[j] \in {92, 123, 125}}
    IN  IF marks = {} THEN open
        ELSE IF s[i] \notin {92, 123, 125}
             THEN OpenMarkers(s, CHOOSE j \in marks : \A m \in marks : j <= m, open)
        ELSE IF s[i] = 92 /\ at(B("\\begin{"))
             THEN IF closing(i + 7) = {} THEN Unbalanced
                  ELSE OpenMarkers(s, close(i + 7) + 1,
                                   Append(open, SubSeq(s, i + 7, close(i + 7) - 1)))
        ELSE IF s[i] = 92 /\ at(B("\\end{"))
             THEN IF closing(i + 5) = {} \/ open = <<>> THEN Unbalanced
                  ELSE IF top # SubSeq(s, i + 5, close(i + 5) - 1) THEN Unbalanced
                  ELSE OpenMarkers(s, close(i + 5) + 1, pop)
        ELSE IF s[i] = 123 THEN OpenMarkers(s, i + 1, Append(open, Brace))
        ELSE IF s[i] = 125
             THEN IF open = <<>> THEN Unbalanced
                  ELSE IF top # Brace THEN Unbalanced
                  ELSE OpenMarkers(s, i + 1, pop)
        ELSE OpenMarkers(s, i + 1, open)

\* The markers a node of each kind holds open between its entering and its
\* leaving call.
Opens(n) ==
    CASE n.kind = "Document" -> <<B("document")>>
      [] n.kind = "List" -> <<IF n.IsOrdered THEN B("enumerate") ELSE B("itemize")>>
      [] n.kind = "Blockquote" -> <<B("framed"), B("quote")>>
      [] n.kind \in {"CodeBlock", "FencedCodeBlock"} -> <<B("minted")>>
      [] n.kind \in {"Heading", "Emphasis", "Link", "CodeSpan"} -> <<Brace>>
      [] OTHER -> <<>>

\* C12: as long as the walk goes on without a handler aborting, the markers the
\* handlers have written are nested, each closing the last one opened, and those
\* open are just those of the nodes entered and not yet left, outermost first: a
\* list's tag, a blockquote's framed and quote, a code block's minted, the brace
\* of a heading, emphasis, link or code span; so each is closed by the leaving
\* call of the node that opened it, and none is open once the Document is left
\* and the end-body marker written.
C12_MarkersNested ==
    (pc # "panic") =>
        OpenMarkers(HandlerBytes, 1, <<>>)
            = Flatten([i \in 1..Len(stack) |-> Opens(stack[i].node)])

\* A walk has ended with the end-body marker after a blockquote was written that
\* holds an ordered list.
C12_Witness ==
    /\ pc = "done" /\ ret.status = WalkStop
    /\ w[Len(w)] = Lit(endDocument)
    /\ \E i, l \in 1..Len(w) :
        /\ w[i] = Lit(blockQuoteStart)
        /\ w[l] = Lit(blockQuoteEnd)
        /\ \E j, k \in (i + 1)..(l - 1) :
            /\ j + 1 < k
            /\ w[j] = Lit(B("\n\\begin{")) /\ w[j + 1] = Lit(B("enumerate"))
            /\ w[k] = Lit(B("\\end{")) /\ w[k + 1] = Lit(B("enumerate"))

====
